---- MODULE Spec2Model ----
(***************************************************************************)
(* Model of the extension-host dispatcher PluginManager                   *)
(* (browser/src/Plugins/PluginManager.ts).                                 *)
(*                                                                         *)
(* The dispatcher keeps the latest editor event context and buffer info,   *)
(* sends messages to plugins over a channel, and maps plugin responses to  *)
(* UI calls, editor commands and emitted host events.  Deferred work       *)
(* (setTimeout) is modelled as pending timers that fire in later steps, so *)
(* that editor events interleave between a response and its deferred step. *)
(***************************************************************************)
EXTENDS Integers, Sequences, FiniteSets, TLC

(* ---------------------------------------------------------------------- *)
(* Bounds and input domains                                                *)
(* ---------------------------------------------------------------------- *)

\* number of setTimeout calls explored in one run
MaxTimers == 1

\* JavaScript's undefined, for the optional values of the program
Undef == [undefined |-> TRUE]

\* IEventContext values the editor reports
EventContext(p, l, c, b, f, v) ==
    [bufferFullPath |-> p, line |-> l, column |-> c, byte |-> b, filetype |-> f, version |-> v]

Contexts ==
    { EventContext("/a.ts", 4, 2, 10, "typescript", 1),
      EventContext("/a.ts", 4, 2, 11, "javascript", 1),
      EventContext("/a.ts", 5, 2, 20, "typescript", 1),
      EventContext("/a.ts", 4, 3, 12, "typescript", 1),
      EventContext("/b.ts", 4, 2, 10, "typescript", 2) }

EventNames == {"CursorMoved", "CursorMovedI", "BufEnter"}

\* editor.quickInfo.enabled and editor.completions.enabled, as read by one call
Configs ==
    { [quickInfoEnabled |-> TRUE, completionsEnabled |-> TRUE],
      [quickInfoEnabled |-> FALSE, completionsEnabled |-> FALSE] }

\* (context, lines) pairs the editor reports as buffer updates
BufferUpdates ==
    { << EventContext("/a.ts", 4, 2, 10, "typescript", 1), <<"x">> >>,
      << EventContext("/b.ts", 4, 2, 10, "typescript", 2), <<"x", "y">> >> }

\* arguments a plugin-registered command is invoked with
CommandArgs == { <<>>, << "arg" >> }

\* the public methods that issue a language service request for the current
\* context, with the request name, capability and additional arguments each
\* passes to _sendLanguageServiceRequest ("" for an omitted capability)
PublicRequests ==
    { [method |-> "gotoDefinition", requestName |-> "goto-definition",
       capability |-> "", additionalArgs |-> <<>>],
      [method |-> "requestFormat", requestName |-> "format",
       capability |-> "formatting", additionalArgs |-> <<>>],
      [method |-> "requestEvaluateBlock", requestName |-> "evaluate-block",
       capability |-> "evaluate-block",
       additionalArgs |-> [id |-> "1", fileName |-> "/a.ts", code |-> "1 + 1"]],
      [method |-> "notifyCompletionItemSelected",
       requestName |-> "completion-provider-item-selected",
       capability |-> "completion-provider", additionalArgs |-> [item |-> "foo"]] }

\* the origin stamp a plugin puts on a response: the position of a context
OriginEvent(p, l, c) == [bufferFullPath |-> p, line |-> l, column |-> c]

OriginEvents == { OriginEvent("/a.ts", 4, 2) }

Metas == {Undef, [originEvent |-> Undef]} \cup {[originEvent |-> o] : o \in OriginEvents}

OriginCheckedTypes == {"show-quick-info", "goto-definition", "completion-provider"}

ExemptTypes ==
    { "set-errors", "format", "execute-shell-command", "evaluate-block-result",
      "set-syntax-highlights", "clear-syntax-highlights", "signature-help-response" }

ResponseTypes ==
    OriginCheckedTypes \cup {"completion-provider-item-selected"} \cup ExemptTypes
        \cup {"unrecognized-xyz"}

\* the payload a well-formed response of each type carries
SamplePayload(type) ==
    CASE type = "show-quick-info" -> [info |-> "info", documentation |-> "docs"]
      [] type = "goto-definition" -> [filePath |-> "/b.ts", line |-> 10, column |-> 3]
      [] type = "completion-provider" -> [base |-> "fo", completions |-> <<"foo">>]
      [] type = "completion-provider-item-selected" -> [details |-> "details"]
      [] type = "set-errors" ->
            [key |-> "k", fileName |-> "/a.ts", errors |-> <<"e1">>, color |-> "red"]
      [] OTHER -> [value |-> type]

SomeError == [message |-> "failed"]

\* types for which responses with an error field are explored
ErrorTypes == {"show-quick-info", "signature-help-response"}

ErrorsOf(type) == IF type \in ErrorTypes THEN {Undef, SomeError} ELSE {Undef}

\* meta is read for the origin-checked types only: for the other types a
\* meta without originEvent is handled as no meta is
MetasOf(type) ==
    IF type \in OriginCheckedTypes THEN Metas ELSE Metas \ {[originEvent |-> Undef]}

ResponsesOfType(type) ==
    { [type |-> type, meta |-> m, payload |-> p, error |-> e] :
        m \in MetasOf(type), p \in {Undef, SamplePayload(type)}, e \in ErrorsOf(type) }

Responses == UNION { ResponsesOfType(t) : t \in ResponseTypes }

Truthy(v) == v # Undef

(* ---------------------------------------------------------------------- *)
(* State                                                                   *)
(* ---------------------------------------------------------------------- *)

VARIABLES
    started,            \* startPlugins has run (_neovimInstance is set)
    lastEventContext,   \* _lastEventContext
    lastBufferInfo,     \* _lastBufferInfo
    timers,             \* pending setTimeout callbacks, in registration order
    nextTimerId,        \* handle the next setTimeout returns
    calls,              \* per timer handle: UI calls its callback has made
    last,               \* the operation the last step ran, with its input
    effects,            \* UI calls, editor commands, emitted events of the last step
    sent,               \* channel messages (with filters) sent by the last step
    threw,              \* the last step raised a TypeError
    lastOnEventArg,     \* history: the context passed to the latest _onEvent
    lastOnBufferUpdateArg,  \* history: the arguments of the latest _onBufferUpdate
    movedSince          \* history: handles of the pending quick-info display callbacks
                        \* during whose delay an _onEvent brought another position

vars == << started, lastEventContext, lastBufferInfo, timers, nextTimerId, calls,
           last, effects, sent, threw, lastOnEventArg, lastOnBufferUpdateArg, movedSince >>

(* ---------------------------------------------------------------------- *)
(* Collaborators: UI surface, editor commands, host events, channel        *)
(* ---------------------------------------------------------------------- *)

UICall(name, args) == [kind |-> "ui", name |-> name, args |-> args]

EditorCommand(text) == [kind |-> "command", name |-> text, args |-> <<>>]

Emit(name, args) == [kind |-> "emit", name |-> name, args |-> args]

\* Capabilities.createPluginFilter(fileType, requiredCapabilities, isLanguageServiceRequired)
PluginFilter(fileType, capabilities, requireLanguageService) ==
    [fileType |-> fileType, capabilities |-> capabilities,
     requireLanguageService |-> requireLanguageService]

Send(message, filter) == [message |-> message, filter |-> filter]

\* the plugins startPlugins creates, with the capabilities each declares:
\* subscriptions, language service capabilities and filetype scope ("*" for any)
Plugins ==
    { [name |-> "language-service", subscriptions |-> {"buffer-update", "vim-events"},
       languageService |-> {"quick-info", "completion-provider", "signature-help",
                            "goto-definition", "formatting", "evaluate-block"},
       filetypes |-> {"typescript", "javascript"}],
      [name |-> "quick-info-only", subscriptions |-> {"vim-events"},
       languageService |-> {"quick-info"}, filetypes |-> {"*"}],
      [name |-> "buffer-watcher", subscriptions |-> {"buffer-update"},
       languageService |-> {}, filetypes |-> {"*"}] }

Range(seq) == { seq[i] : i \in 1..Len(seq) }

\* the capability filter, evaluated for one plugin: every required subscription
\* and language service capability is declared by the plugin, and a filter that
\* requires a language service match also requires the filetype to be in the
\* plugin's scope; a message sent without a filter reaches every plugin
Matches(plugin, filter) ==
    IF filter = Undef THEN TRUE
    ELSE LET required == filter.capabilities
         IN  /\ "subscriptions" \in DOMAIN required
                    => Range(required.subscriptions) \subseteq plugin.subscriptions
             /\ "languageService" \in DOMAIN required
                    => Range(required.languageService) \subseteq plugin.languageService
             /\ filter.requireLanguageService
                    => ("*" \in plugin.filetypes \/ filter.fileType \in plugin.filetypes)

\* the messages of the last step the channel delivers to a plugin
Delivered(plugin) == SelectSeq(sent, LAMBDA m : Matches(plugin, m.filter))

(* ---------------------------------------------------------------------- *)
(* _validateOriginEventMatchesCurrentEvent                                 *)
(* ---------------------------------------------------------------------- *)

\* property reads of undefined raise a TypeError: pluginResponse.meta.originEvent,
\* originEvent.bufferFullPath, currentEvent.bufferFullPath
ValidateThrows(pluginResponse, currentEvent) ==
    \/ pluginResponse.meta = Undef
    \/ pluginResponse.meta.originEvent = Undef
    \/ currentEvent = Undef

\* variant: the origin is compared with the whole current context
MutValidateWholeContext(pluginResponse, currentEvent) ==
    pluginResponse.meta.originEvent = currentEvent

\* variant: the column is left out of the comparison
MutValidateIgnoresColumn(pluginResponse, currentEvent) ==
    LET originEvent == pluginResponse.meta.originEvent
    IN  /\ originEvent.bufferFullPath = currentEvent.bufferFullPath
        /\ originEvent.line = currentEvent.line

ValidateOriginEventMatchesCurrentEvent(pluginResponse, currentEvent) ==
    LET originEvent == pluginResponse.meta.originEvent
    IN  /\ originEvent.bufferFullPath = currentEvent.bufferFullPath
        /\ originEvent.line = currentEvent.line
        /\ originEvent.column = currentEvent.column

(* ---------------------------------------------------------------------- *)
(* _handlePluginResponse                                                   *)
(* ---------------------------------------------------------------------- *)

Outcome(thrown, effs, timer) == [threw |-> thrown, effects |-> effs, timer |-> timer]

Discarded == Outcome(FALSE, <<>>, "none")

Raised == Outcome(TRUE, <<>>, "none")

\* variant: the view is centered before the cursor is moved
MutGotoCentersFirst(payload) ==
    << EditorCommand("e! " \o payload.filePath),
       EditorCommand("norm zz"),
       EditorCommand("keepjumps norm " \o ToString(payload.line)
                        \o "G" \o ToString(payload.column)) >>

\* lines 166-169: the three editor commands of a goto-definition
GotoDefinitionCommands(payload) ==
    << EditorCommand("e! " \o payload.filePath),
       EditorCommand("keepjumps norm " \o ToString(payload.line)
                        \o "G" \o ToString(payload.column)),
       EditorCommand("norm zz") >>

\* variant: every re-emitted event carries the payload alone
MutEmitPayloadOnly(pluginResponse) == << pluginResponse.payload >>

\* the arguments of this.emit for the re-emitted response types
EmitArguments(pluginResponse) ==
    LET payload == pluginResponse.payload
    IN  IF pluginResponse.type = "set-errors"
        THEN << payload.key, payload.fileName, payload.errors, payload.color >>
        ELSE IF pluginResponse.type = "signature-help-response"
        THEN << pluginResponse.error, payload >>
        ELSE << payload >>

\* variant: the error of the response is not looked at
MutShowQuickInfoIgnoresError(pluginResponse, currentEvent) ==
    IF ValidateThrows(pluginResponse, currentEvent) THEN Raised
    ELSE IF ~ValidateOriginEventMatchesCurrentEvent(pluginResponse, currentEvent)
    THEN Discarded
    ELSE Outcome(FALSE, << UICall("hideQuickInfo", <<>>) >>, "showQuickInfo")

ShowQuickInfoResponse(pluginResponse, currentEvent) ==
    IF ValidateThrows(pluginResponse, currentEvent) THEN Raised
    ELSE IF ~ValidateOriginEventMatchesCurrentEvent(pluginResponse, currentEvent)
    THEN Discarded
    ELSE IF ~Truthy(pluginResponse.error)
    THEN Outcome(FALSE, << UICall("hideQuickInfo", <<>>) >>, "showQuickInfo")
    ELSE Outcome(FALSE, <<>>, "hideQuickInfo")

GotoDefinitionResponse(pluginResponse, currentEvent) ==
    IF ValidateThrows(pluginResponse, currentEvent) THEN Raised
    ELSE IF ~ValidateOriginEventMatchesCurrentEvent(pluginResponse, currentEvent)
    THEN Discarded
    ELSE IF pluginResponse.payload = Undef THEN Raised
    ELSE Outcome(FALSE, GotoDefinitionCommands(pluginResponse.payload), "none")

CompletionProviderResponse(pluginResponse, currentEvent) ==
    IF ValidateThrows(pluginResponse, currentEvent) THEN Raised
    ELSE IF ~ValidateOriginEventMatchesCurrentEvent(pluginResponse, currentEvent)
    THEN Discarded
    ELSE IF ~Truthy(pluginResponse.payload) THEN Discarded
    ELSE Outcome(FALSE, <<>>, "showCompletions")

\* payload.key of an undefined payload raises; the other types pass the
\* payload on as it is
EmittedResponse(pluginResponse) ==
    IF pluginResponse.type = "set-errors" /\ pluginResponse.payload = Undef THEN Raised
    ELSE Outcome(FALSE, << Emit(pluginResponse.type, EmitArguments(pluginResponse)) >>, "none")

\* variant: completion-provider-item-selected is origin-checked as well
MutHandleItemSelectedValidated(pluginResponse, currentEvent) ==
    LET type == pluginResponse.type
    IN  IF type = "show-quick-info" THEN ShowQuickInfoResponse(pluginResponse, currentEvent)
        ELSE IF type = "goto-definition"
        THEN GotoDefinitionResponse(pluginResponse, currentEvent)
        ELSE IF type = "completion-provider"
        THEN CompletionProviderResponse(pluginResponse, currentEvent)
        ELSE IF type = "completion-provider-item-selected"
        THEN IF ValidateThrows(pluginResponse, currentEvent) THEN Raised
             ELSE IF ~ValidateOriginEventMatchesCurrentEvent(pluginResponse, currentEvent)
             THEN Discarded
             ELSE Outcome(FALSE, <<>>, "setDetailedCompletionEntry")
        ELSE IF type \in { "set-errors", "format", "execute-shell-command",
                           "evaluate-block-result", "set-syntax-highlights",
                           "clear-syntax-highlights", "signature-help-response" }
        THEN EmittedResponse(pluginResponse)
        ELSE Discarded

\* variant: a type no branch names is re-emitted like the exempt types
MutHandleUnknownEmits(pluginResponse, currentEvent) ==
    LET type == pluginResponse.type
    IN  IF type = "show-quick-info" THEN ShowQuickInfoResponse(pluginResponse, currentEvent)
        ELSE IF type = "goto-definition"
        THEN GotoDefinitionResponse(pluginResponse, currentEvent)
        ELSE IF type = "completion-provider"
        THEN CompletionProviderResponse(pluginResponse, currentEvent)
        ELSE IF type = "completion-provider-item-selected"
        THEN Outcome(FALSE, <<>>, "setDetailedCompletionEntry")
        ELSE EmittedResponse(pluginResponse)

\* what one call of the handler does, given the current context: whether it
\* raises, the calls it makes synchronously, and the callback it defers
HandlePluginResponse(pluginResponse, currentEvent) ==
    LET type == pluginResponse.type
    IN  IF type = "show-quick-info" THEN ShowQuickInfoResponse(pluginResponse, currentEvent)
        ELSE IF type = "goto-definition"
        THEN GotoDefinitionResponse(pluginResponse, currentEvent)
        ELSE IF type = "completion-provider"
        THEN CompletionProviderResponse(pluginResponse, currentEvent)
        ELSE IF type = "completion-provider-item-selected"
        THEN Outcome(FALSE, <<>>, "setDetailedCompletionEntry")
        ELSE IF type \in { "set-errors", "format", "execute-shell-command",
                           "evaluate-block-result", "set-syntax-highlights",
                           "clear-syntax-highlights", "signature-help-response" }
        THEN EmittedResponse(pluginResponse)
        ELSE Discarded

\* variant: the quick-info callback shows without validating the origin again
MutTimerCallbackNoRecheck(timer, currentEvent) ==
    LET payload == timer.response.payload
    IN  IF timer.kind = "showQuickInfo" THEN
            IF payload = Undef THEN Raised
            ELSE Outcome(FALSE,
                    << UICall("showQuickInfo", << payload.info, payload.documentation >>) >>,
                    "none")
        ELSE IF timer.kind = "hideQuickInfo" THEN
            Outcome(FALSE, << UICall("hideQuickInfo", <<>>) >>, "none")
        ELSE IF timer.kind = "showCompletions" THEN
            Outcome(FALSE, << UICall("showCompletions", << payload >>) >>, "none")
        ELSE
            IF payload = Undef THEN Raised
            ELSE Outcome(FALSE,
                    << UICall("setDetailedCompletionEntry", << payload.details >>) >>,
                    "none")

\* the callback a setTimeout of the handler registered, run against the
\* context current when it fires
TimerCallback(timer, currentEvent) ==
    LET pluginResponse == timer.response
        payload == pluginResponse.payload
    IN  IF timer.kind = "showQuickInfo" THEN
            IF ValidateThrows(pluginResponse, currentEvent) THEN Raised
            ELSE IF ~ValidateOriginEventMatchesCurrentEvent(pluginResponse, currentEvent)
            THEN Discarded
            ELSE IF payload = Undef THEN Raised
            ELSE Outcome(FALSE,
                    << UICall("showQuickInfo", << payload.info, payload.documentation >>) >>,
                    "none")
        ELSE IF timer.kind = "hideQuickInfo" THEN
            Outcome(FALSE, << UICall("hideQuickInfo", <<>>) >>, "none")
        ELSE IF timer.kind = "showCompletions" THEN
            Outcome(FALSE, << UICall("showCompletions", << payload >>) >>, "none")
        ELSE
            IF payload = Undef THEN Raised
            ELSE Outcome(FALSE,
                    << UICall("setDetailedCompletionEntry", << payload.details >>) >>,
                    "none")

\* setTimeout with no delay argument; the quick-info display waits for
\* editor.quickInfo.delay instead
ZeroDelay(timer) == timer.kind # "showQuickInfo"

\* timers of equal delay fire in registration order; a delayed one fires
\* no earlier than the zero-delay ones registered before it
MayFire(i) == \A j \in 1..(i - 1) : ~ZeroDelay(timers[j])

\* variant: the callback stays registered after it has run
MutKeepTimer(seq, i) == seq

RemoveAt(seq, i) == SubSeq(seq, 1, i - 1) \o SubSeq(seq, i + 1, Len(seq))

(* ---------------------------------------------------------------------- *)
(* _sendLanguageServiceRequest, _onBufferUpdate, _onEvent                  *)
(* ---------------------------------------------------------------------- *)

\* the empty string stands for an omitted languageServiceCapability
SendLanguageServiceRequest(requestName, eventContext, languageServiceCapability, additionalArgs) ==
    LET capability == IF languageServiceCapability = "" THEN requestName
                      ELSE languageServiceCapability
    IN  Send([type |-> "request",
              payload |-> [name |-> requestName, context |-> eventContext,
                           additionalArgs |-> additionalArgs]],
             PluginFilter(eventContext.filetype, [languageService |-> << capability >>], TRUE))

\* variant: the version of the first update is kept
MutBufferInfoKeepsVersion(eventContext, bufferLines) ==
    [lines |-> bufferLines, fileName |-> eventContext.bufferFullPath,
     version |-> IF lastBufferInfo = Undef THEN eventContext.version
                 ELSE lastBufferInfo.version]

BufferInfoOf(eventContext, bufferLines) ==
    [lines |-> bufferLines, fileName |-> eventContext.bufferFullPath,
     version |-> eventContext.version]

\* the currentBuffer accessor
CurrentBuffer == lastBufferInfo

\* variant: the buffer update is sent with an empty capability requirement
MutBufferUpdateNoRequirement(eventContext, bufferLines) ==
    Send([type |-> "buffer-update",
          payload |-> [eventContext |-> eventContext, bufferLines |-> bufferLines]],
         PluginFilter(eventContext.filetype, [subscriptions |-> <<>>], FALSE))

BufferUpdateMessage(eventContext, bufferLines) ==
    Send([type |-> "buffer-update",
          payload |-> [eventContext |-> eventContext, bufferLines |-> bufferLines]],
         PluginFilter(eventContext.filetype, [subscriptions |-> << "buffer-update" >>], FALSE))

EventMessage(eventName, eventContext) ==
    Send([type |-> "event", payload |-> [name |-> eventName, context |-> eventContext]],
         PluginFilter(eventContext.filetype, [subscriptions |-> << "vim-events" >>], FALSE))

\* variant: the enabled flags are not consulted
MutEventRequestsIgnoreConfig(eventName, eventContext, config) ==
    IF eventName = "CursorMoved"
    THEN << SendLanguageServiceRequest("quick-info", eventContext, "", <<>>) >>
    ELSE IF eventName = "CursorMovedI"
    THEN << SendLanguageServiceRequest("completion-provider", eventContext, "", <<>>),
            SendLanguageServiceRequest("signature-help", eventContext, "", <<>>) >>
    ELSE <<>>

\* the requests _onEvent issues after the event message; config holds the
\* values Config.getValue returns during the call
EventRequests(eventName, eventContext, config) ==
    IF eventName = "CursorMoved" /\ config.quickInfoEnabled
    THEN << SendLanguageServiceRequest("quick-info", eventContext, "", <<>>) >>
    ELSE IF eventName = "CursorMovedI" /\ config.completionsEnabled
    THEN << SendLanguageServiceRequest("completion-provider", eventContext, "", <<>>),
            SendLanguageServiceRequest("signature-help", eventContext, "", <<>>) >>
    ELSE <<>>

(* ---------------------------------------------------------------------- *)
(* Initial state and actions                                               *)
(* ---------------------------------------------------------------------- *)

Init ==
    /\ started = FALSE
    /\ lastEventContext = Undef
    /\ lastBufferInfo = Undef
    /\ timers = <<>>
    /\ nextTimerId = 1
    /\ calls = [i \in 1..MaxTimers |-> 0]
    /\ last = [op |-> "init"]
    /\ effects = <<>>
    /\ sent = <<>>
    /\ threw = FALSE
    /\ lastOnEventArg = Undef
    /\ lastOnBufferUpdateArg = <<>>
    /\ movedSince = {}

\* startPlugins: subscribes to the editor's events and creates the plugins
StartPlugins ==
    /\ ~started
    /\ started' = TRUE
    /\ last' = [op |-> "startPlugins"]
    /\ effects' = <<>>
    /\ sent' = <<>>
    /\ threw' = FALSE
    /\ UNCHANGED << lastEventContext, lastBufferInfo, timers, nextTimerId, calls,
                    lastOnEventArg, lastOnBufferUpdateArg, movedSince >>

\* variant: a buffer update stores its context as the current one
MutBufferUpdateStoresContext(eventContext, bufferLines) ==
    /\ started
    /\ lastBufferInfo' = BufferInfoOf(eventContext, bufferLines)
    /\ lastEventContext' = eventContext
    /\ sent' = << BufferUpdateMessage(eventContext, bufferLines) >>
    /\ last' = [op |-> "bufferUpdate", context |-> eventContext, lines |-> bufferLines]
    /\ effects' = <<>>
    /\ threw' = FALSE
    /\ lastOnBufferUpdateArg' = << eventContext, bufferLines >>
    /\ UNCHANGED << started, timers, nextTimerId, calls, lastOnEventArg, movedSince >>

OnBufferUpdate(eventContext, bufferLines) ==
    /\ started
    /\ lastBufferInfo' = BufferInfoOf(eventContext, bufferLines)
    /\ sent' = << BufferUpdateMessage(eventContext, bufferLines) >>
    /\ last' = [op |-> "bufferUpdate", context |-> eventContext, lines |-> bufferLines]
    /\ effects' = <<>>
    /\ threw' = FALSE
    /\ lastOnBufferUpdateArg' = << eventContext, bufferLines >>
    /\ UNCHANGED << started, lastEventContext, timers, nextTimerId, calls, lastOnEventArg,
                    movedSince >>

\* the pending quick-info display callbacks whose response has another
\* origin than the position of this context
MovedAwayFrom(eventContext) ==
    { timers[i].id : i \in { j \in 1..Len(timers) :
        /\ timers[j].kind = "showQuickInfo"
        /\ timers[j].response.meta.originEvent.bufferFullPath # eventContext.bufferFullPath
            \/ timers[j].response.meta.originEvent.line # eventContext.line
            \/ timers[j].response.meta.originEvent.column # eventContext.column } }

\* variant: a context already stored is kept
MutOnEventKeepsContext(eventName, eventContext, config) ==
    /\ started
    /\ lastEventContext' = IF lastEventContext = Undef THEN eventContext
                           ELSE lastEventContext
    /\ sent' = << EventMessage(eventName, lastEventContext') >>
                 \o EventRequests(eventName, eventContext, config)
    /\ last' = [op |-> "event", name |-> eventName, context |-> eventContext,
                config |-> config]
    /\ effects' = <<>>
    /\ threw' = FALSE
    /\ lastOnEventArg' = eventContext
    /\ movedSince' = movedSince \cup MovedAwayFrom(eventContext)
    /\ UNCHANGED << started, lastBufferInfo, timers, nextTimerId, calls,
                    lastOnBufferUpdateArg >>

OnEvent(eventName, eventContext, config) ==
    /\ started
    /\ lastEventContext' = eventContext
    /\ sent' = << EventMessage(eventName, lastEventContext') >>
                 \o EventRequests(eventName, eventContext, config)
    /\ last' = [op |-> "event", name |-> eventName, context |-> eventContext,
                config |-> config]
    /\ effects' = <<>>
    /\ threw' = FALSE
    /\ lastOnEventArg' = eventContext
    /\ movedSince' = movedSince \cup MovedAwayFrom(eventContext)
    /\ UNCHANGED << started, lastBufferInfo, timers, nextTimerId, calls,
                    lastOnBufferUpdateArg >>

\* variant: a response waits until no callback is pending
MutHandleResponseWaits(pluginResponse) ==
    LET out == HandlePluginResponse(pluginResponse, lastEventContext)
    IN  /\ started
        /\ timers = <<>>
        /\ out.timer # "none" => nextTimerId <= MaxTimers
        /\ effects' = out.effects
        /\ threw' = out.threw
        /\ IF out.timer = "none"
           THEN /\ last' = [op |-> "response", response |-> pluginResponse, timer |-> 0]
                /\ UNCHANGED << timers, nextTimerId >>
           ELSE /\ last' = [op |-> "response", response |-> pluginResponse,
                            timer |-> nextTimerId]
                /\ timers' = Append(timers, [id |-> nextTimerId, kind |-> out.timer,
                                             response |-> pluginResponse])
                /\ nextTimerId' = nextTimerId + 1
        /\ sent' = <<>>
        /\ UNCHANGED << started, lastEventContext, lastBufferInfo, calls, lastOnEventArg,
                        lastOnBufferUpdateArg, movedSince >>

\* the channel delivers a plugin's response to the registered handler
HandleResponse(pluginResponse) ==
    LET out == HandlePluginResponse(pluginResponse, lastEventContext)
    IN  /\ started
        /\ out.timer # "none" => nextTimerId <= MaxTimers
        /\ effects' = out.effects
        /\ threw' = out.threw
        /\ IF out.timer = "none"
           THEN /\ last' = [op |-> "response", response |-> pluginResponse, timer |-> 0]
                /\ UNCHANGED << timers, nextTimerId >>
           ELSE /\ last' = [op |-> "response", response |-> pluginResponse,
                            timer |-> nextTimerId]
                /\ timers' = Append(timers, [id |-> nextTimerId, kind |-> out.timer,
                                             response |-> pluginResponse])
                /\ nextTimerId' = nextTimerId + 1
        /\ sent' = <<>>
        /\ UNCHANGED << started, lastEventContext, lastBufferInfo, calls, lastOnEventArg,
                        lastOnBufferUpdateArg, movedSince >>

\* the event loop runs a pending setTimeout callback, once
FireTimer(i) ==
    LET timer == timers[i]
        out == TimerCallback(timer, lastEventContext)
    IN  /\ MayFire(i)
        /\ timers' = RemoveAt(timers, i)
        /\ effects' = out.effects
        /\ threw' = out.threw
        /\ calls' = [calls EXCEPT ![timer.id] = @ + Len(out.effects)]
        /\ last' = [op |-> "timer",
                    timer |-> [id |-> timer.id, kind |-> timer.kind,
                               response |-> timer.response,
                               away |-> timer.id \in movedSince]]
        /\ movedSince' = movedSince \ {timer.id}
        /\ sent' = <<>>
        /\ UNCHANGED << started, lastEventContext, lastBufferInfo, nextTimerId,
                        lastOnEventArg, lastOnBufferUpdateArg >>

\* variant: the command carries the context of the time it was registered
MutCommandCapturesContext(args) ==
    /\ started
    /\ sent' = << Send([type |-> "command",
                        payload |-> [args |-> args, eventContext |-> Undef]],
                       Undef) >>
    /\ last' = [op |-> "command", args |-> args]
    /\ effects' = <<>>
    /\ threw' = FALSE
    /\ UNCHANGED << started, lastEventContext, lastBufferInfo, timers, nextTimerId, calls,
                    lastOnEventArg, lastOnBufferUpdateArg, movedSince >>

\* the command manager runs the callback _createPlugin registered for a
\* plugin's command: one send, with no filter argument
InvokeCommand(args) ==
    /\ started
    /\ sent' = << Send([type |-> "command",
                        payload |-> [args |-> args, eventContext |-> lastEventContext]],
                       Undef) >>
    /\ last' = [op |-> "command", args |-> args]
    /\ effects' = <<>>
    /\ threw' = FALSE
    /\ UNCHANGED << started, lastEventContext, lastBufferInfo, timers, nextTimerId, calls,
                    lastOnEventArg, lastOnBufferUpdateArg, movedSince >>

\* gotoDefinition, requestFormat, requestEvaluateBlock, notifyCompletionItemSelected:
\* _sendLanguageServiceRequest with the current context; reading the filetype
\* of an undefined context raises before anything is sent
RequestLanguageService(request) ==
    /\ IF lastEventContext = Undef
       THEN sent' = <<>> /\ threw' = TRUE
       ELSE /\ sent' = << SendLanguageServiceRequest(request.requestName, lastEventContext,
                                                     request.capability,
                                                     request.additionalArgs) >>
            /\ threw' = FALSE
    /\ last' = [op |-> "request", method |-> request.method]
    /\ effects' = <<>>
    /\ UNCHANGED << started, lastEventContext, lastBufferInfo, timers, nextTimerId, calls,
                    lastOnEventArg, lastOnBufferUpdateArg, movedSince >>

EditorEvent ==
    \E eventName \in EventNames, eventContext \in Contexts, config \in Configs :
        OnEvent(eventName, eventContext, config)

EditorBufferUpdate ==
    \E update \in BufferUpdates : OnBufferUpdate(update[1], update[2])

PluginResponse ==
    \E pluginResponse \in Responses : HandleResponse(pluginResponse)

TimerFires ==
    \E i \in 1..Len(timers) : FireTimer(i)

CommandInvoked ==
    \E args \in CommandArgs : InvokeCommand(args)

HostRequest ==
    \E request \in PublicRequests : RequestLanguageService(request)

Next ==
    \/ StartPlugins
    \/ EditorEvent
    \/ EditorBufferUpdate
    \/ PluginResponse
    \/ TimerFires
    \/ CommandInvoked
    \/ HostRequest

Spec == Init /\ [][Next]_vars

\* the response types whose handling defers work with setTimeout
DeferringTypes ==
    {"show-quick-info", "completion-provider", "completion-provider-item-selected"}

DeferringResponse ==
    \E pluginResponse \in UNION { ResponsesOfType(t) : t \in DeferringTypes } :
        HandleResponse(pluginResponse)

NextDeferring ==
    \/ StartPlugins
    \/ EditorEvent
    \/ EditorBufferUpdate
    \/ DeferringResponse
    \/ TimerFires

\* the editor and the responses that register callbacks, with an event loop
\* that eventually runs every callback whose delay has passed
FairSpec == Init /\ [][NextDeferring]_vars /\ WF_vars(TimerFires)

(* ---------------------------------------------------------------------- *)
(* Properties                                                              *)
(* ---------------------------------------------------------------------- *)

\* (bufferFullPath, line, column) of a context
Position(context) == OriginEvent(context.bufferFullPath, context.line, context.column)

HasOrigin(pluginResponse) ==
    pluginResponse.meta # Undef /\ pluginResponse.meta.originEvent # Undef

\* the response's origin is the position of the current context
Fresh(pluginResponse) ==
    /\ HasOrigin(pluginResponse)
    /\ lastEventContext # Undef
    /\ pluginResponse.meta.originEvent = Position(lastEventContext)

\* the response's origin differs from the current context in path, line or column
Stale(pluginResponse) ==
    /\ HasOrigin(pluginResponse)
    /\ lastEventContext # Undef
    /\ pluginResponse.meta.originEvent # Position(lastEventContext)

\* the last step handled a response of one of the given types
Handled(types) == last.op = "response" /\ last.response.type \in types

\* the last step ran the deferred callback of a response of one of the given kinds
Fired(kinds) == last.op = "timer" /\ last.timer.kind \in kinds

EffectNames == { effects[i].name : i \in 1..Len(effects) }

\* C1: a response of an origin-checked type whose origin differs from the
\* current context when it is handled makes no UI call, issues no editor
\* command, emits no event and registers no deferred callback.
C1_StaleResponseDiscarded ==
    (Handled(OriginCheckedTypes) /\ Stale(last.response))
        => (effects = <<>> /\ last.timer = 0 /\ ~threw)

\* a well-formed stale completion-provider response has been handled
C1_Witness ==
    /\ Handled({"completion-provider"})
    /\ Stale(last.response)
    /\ last.response.payload # Undef
    /\ lastEventContext.column # last.response.meta.originEvent.column

\* C2: showQuickInfo is invoked only by the delayed callback of a
\* show-quick-info response, and only when that response's origin is the
\* position of the context current when the callback runs.
C2_QuickInfoShownOnlyIfStillFresh ==
    "showQuickInfo" \in EffectNames
        => (Fired({"showQuickInfo"}) /\ Fresh(last.timer.response))

\* the delayed callback of a response accepted at arrival ran after the
\* context moved, and showed nothing
C2_Witness ==
    /\ Fired({"showQuickInfo"})
    /\ Stale(last.timer.response)
    /\ last.timer.response.payload # Undef
    /\ effects = <<>>

\* C3: whenever a deferred callback invokes showCompletions or
\* showQuickInfo, the origin of its response is the position of the context
\* current at that moment.
C3_DeferredCallsAreFresh ==
    (Fired({"showCompletions", "showQuickInfo"}) /\ effects # <<>>)
        => Fresh(last.timer.response)

\* C4: after the first editor event, handling a response of an origin-checked
\* type that lacks meta or meta.originEvent completes without raising, and
\* makes no call and registers no callback.
C4_MissingOriginDiscarded ==
    (Handled(OriginCheckedTypes) /\ ~HasOrigin(last.response) /\ lastEventContext # Undef)
        => (~threw /\ effects = <<>> /\ last.timer = 0)

\* C5: handling a response that carries an origin and a payload never
\* raises, in the state before the first editor event included.
C5_NoResponseRaises ==
    (Handled(ResponseTypes) /\ HasOrigin(last.response) /\ last.response.payload # Undef)
        => ~threw

\* what the host event of an exempt response carries: the payload (for
\* set-errors its four fields), preceded by the error for signature-help-response
C6_Carried(pluginResponse) ==
    IF pluginResponse.type = "set-errors"
    THEN << pluginResponse.payload.key, pluginResponse.payload.fileName,
            pluginResponse.payload.errors, pluginResponse.payload.color >>
    ELSE IF pluginResponse.type = "signature-help-response"
    THEN << pluginResponse.error, pluginResponse.payload >>
    ELSE << pluginResponse.payload >>

\* C6: handling a response of an exempt type (a set-errors one carrying its
\* payload) emits exactly one host event, named as the response type and
\* carrying the payload, whatever the current context and the response's
\* origin or lack of one; it does nothing else.
C6_ExemptAlwaysApplied ==
    (Handled(ExemptTypes)
        /\ (last.response.type = "set-errors" => last.response.payload # Undef))
        => /\ effects = << [kind |-> "emit", name |-> last.response.type,
                            args |-> C6_Carried(last.response)] >>
           /\ ~threw
           /\ last.timer = 0
           /\ sent = <<>>

\* a signature-help-response carrying an error and a stale origin was
\* handled after the context moved
C6_Witness ==
    /\ Handled({"signature-help-response"})
    /\ Stale(last.response)
    /\ last.response.error # Undef
    /\ Len(effects) = 1

\* C8: a goto-definition response with a payload issues, when its origin is
\* the position of the current context, exactly the three commands open file,
\* move to line and column, center view, in this order, and no command when
\* the context has another position.
C8_GotoDefinition ==
    (Handled({"goto-definition"}) /\ last.response.payload # Undef)
        => /\ Fresh(last.response) =>
                effects = << [kind |-> "command", name |-> "e! /b.ts", args |-> <<>>],
                             [kind |-> "command", name |-> "keepjumps norm 10G3",
                              args |-> <<>>],
                             [kind |-> "command", name |-> "norm zz", args |-> <<>>] >>
           /\ Stale(last.response) => effects = <<>>

\* a goto-definition response arrived while the context was still at its origin
C8_Witness ==
    /\ Handled({"goto-definition"})
    /\ Fresh(last.response)
    /\ Len(effects) = 3

\* C9: handling a response of an unrecognised type makes no call, sends no
\* message, registers no callback, raises nothing and leaves the context,
\* the buffer info and the pending callbacks as they were.
C9_UnknownResponseNoOp ==
    [][ (last'.op = "response" /\ last'.response.type \notin
            (OriginCheckedTypes \cup {"completion-provider-item-selected"} \cup ExemptTypes))
        => /\ effects' = <<>>
           /\ sent' = <<>>
           /\ ~threw'
           /\ UNCHANGED << lastEventContext, lastBufferInfo, timers, nextTimerId, started >>
      ]_vars

\* a response of an unrecognised type, with a payload and a fresh origin,
\* was handled while a callback was pending
C9_Witness ==
    /\ Handled({"unrecognized-xyz"})
    /\ Fresh(last.response)
    /\ last.response.payload # Undef
    /\ timers # <<>>

\* C10: the stored context is the one passed to the latest _onEvent call.
C10_LastEventContextIsLatest ==
    lastEventContext = lastOnEventArg

\* events with different contexts were interleaved with a buffer update, a
\* response and the firing of its callback
C10_Witness ==
    /\ Fired({"showQuickInfo"})
    /\ Stale(last.timer.response)
    /\ lastBufferInfo # Undef

\* the callback with this handle is pending, belongs to a show-quick-info or
\* completion-provider response with a payload, and satisfies the predicate
C7_Pending(id, P(_)) ==
    \E i \in 1..Len(timers) :
        /\ timers[i].id = id
        /\ timers[i].kind \in {"showQuickInfo", "showCompletions"}
        /\ timers[i].response.payload # Undef
        /\ P(timers[i].response)

C7_Any(pluginResponse) == TRUE

\* the UI call a deferred callback owes its response
C7_Owed(timer) ==
    IF timer.kind = "showQuickInfo"
    THEN [kind |-> "ui", name |-> "showQuickInfo",
          args |-> << timer.response.payload.info, timer.response.payload.documentation >>]
    ELSE [kind |-> "ui", name |-> "showCompletions", args |-> << timer.response.payload >>]

\* C7: a successful show-quick-info response stamped with the current context
\* calls hideQuickInfo when it arrives; its callback, and that of a
\* completion-provider response with a payload, makes at most one UI call,
\* the one showing the response's payload; and when pending callbacks
\* eventually run, the call is made unless the context moves away from the
\* response's origin.
C7_FreshDeferredResponseApplied ==
    /\ [](  (Handled({"show-quick-info"}) /\ Fresh(last.response)
                /\ last.response.error = Undef)
            => (effects = << [kind |-> "ui", name |-> "hideQuickInfo", args |-> <<>>] >>
                    /\ last.timer # 0) )
    /\ [](  (Handled({"completion-provider"}) /\ Fresh(last.response)
                /\ last.response.payload # Undef)
            => last.timer # 0 )
    /\ [](  \A id \in 1..MaxTimers : calls[id] <= 1 )
    /\ [](  (Fired({"showQuickInfo", "showCompletions"}) /\ Fresh(last.timer.response)
                /\ last.timer.response.payload # Undef)
            => effects = << C7_Owed(last.timer) >> )
    /\ \A id \in 1..MaxTimers :
            C7_Pending(id, C7_Any) ~> (calls[id] = 1 \/ C7_Pending(id, Stale))

\* the delayed callback of a fresh show-quick-info response has shown it
C7_Witness ==
    /\ Fired({"showQuickInfo"})
    /\ Fresh(last.timer.response)
    /\ calls[last.timer.id] = 1
    /\ effects # <<>>

\* the filter of a message sent to one subscription
C11_SubscriptionFilter(context, subscription) ==
    [fileType |-> context.filetype, capabilities |-> [subscriptions |-> << subscription >>],
     requireLanguageService |-> FALSE]

\* a language service request for a context, filtered to the capability of its name
C11_Request(name, context) ==
    [message |-> [type |-> "request",
                  payload |-> [name |-> name, context |-> context, additionalArgs |-> <<>>]],
     filter |-> [fileType |-> context.filetype, capabilities |-> [languageService |-> << name >>],
                 requireLanguageService |-> TRUE]]

\* C11: _onEvent(name, context) stores the context and sends, in this order,
\* one event message filtered to subscription vim-events (no language service
\* match required), then a quick-info request if name is CursorMoved and
\* quick-info is enabled, or a completion-provider and a signature-help request
\* if name is CursorMovedI and completions are enabled, and nothing else; the
\* flags are those read during the call.
C11_OnEventOutbound ==
    last.op = "event" =>
        /\ lastEventContext = last.context
        /\ sent =
            << [message |-> [type |-> "event",
                             payload |-> [name |-> last.name, context |-> last.context]],
                filter |-> C11_SubscriptionFilter(last.context, "vim-events")] >>
            \o (IF last.name = "CursorMoved" /\ last.config.quickInfoEnabled
                THEN << C11_Request("quick-info", last.context) >>
                ELSE IF last.name = "CursorMovedI" /\ last.config.completionsEnabled
                THEN << C11_Request("completion-provider", last.context),
                        C11_Request("signature-help", last.context) >>
                ELSE <<>>)

\* a CursorMovedI event with completions enabled has sent its three messages
C11_Witness ==
    /\ last.op = "event"
    /\ last.name = "CursorMovedI"
    /\ last.config.completionsEnabled
    /\ Len(sent) = 3

\* the message is a completion-provider request
C12_IsCompletionRequest(m) ==
    m.message.type = "request" /\ m.message.payload.name = "completion-provider"

\* C12: a plugin that does not subscribe to buffer-update is delivered no
\* buffer-update message, and a plugin that does not declare the language
\* service capability completion-provider is delivered no completion-provider
\* request.
C12_CapabilityFiltering ==
    \A plugin \in Plugins :
        \A i \in 1..Len(Delivered(plugin)) :
            LET m == Delivered(plugin)[i]
            IN  /\ m.message.type = "buffer-update"
                    => "buffer-update" \in plugin.subscriptions
                /\ C12_IsCompletionRequest(m)
                    => "completion-provider" \in plugin.languageService

\* a completion-provider request was delivered to one plugin and withheld from
\* another that was delivered the event message of the same step
C12_Witness ==
    /\ \E plugin \in Plugins :
            \E i \in 1..Len(Delivered(plugin)) : C12_IsCompletionRequest(Delivered(plugin)[i])
    /\ \E plugin \in Plugins :
            /\ "completion-provider" \notin plugin.languageService
            /\ Len(Delivered(plugin)) = 1

\* C13: invoking a plugin's command sends exactly one command message, which
\* carries the arguments and the context of the latest _onEvent call.
C13_CommandCarriesCurrentContext ==
    last.op = "command" =>
        /\ Len(sent) = 1
        /\ sent[1].message =
                [type |-> "command",
                 payload |-> [args |-> last.args, eventContext |-> lastOnEventArg]]

\* a command was invoked after the context had moved away from the origin
\* of a response still waiting for its callback
C13_Witness ==
    /\ last.op = "command"
    /\ timers # <<>>
    /\ Stale(timers[1].response)

\* C14: once a buffer update has been processed, currentBuffer holds the
\* lines, file path and version of the latest _onBufferUpdate call, and the
\* call has sent one buffer-update message filtered to subscription
\* buffer-update with no language service match required.
C14_CurrentBufferIsLatestUpdate ==
    /\ lastOnBufferUpdateArg # <<>> =>
            CurrentBuffer = [lines |-> lastOnBufferUpdateArg[2],
                             fileName |-> lastOnBufferUpdateArg[1].bufferFullPath,
                             version |-> lastOnBufferUpdateArg[1].version]
    /\ last.op = "bufferUpdate" =>
            sent = << [message |-> [type |-> "buffer-update",
                                    payload |-> [eventContext |-> last.context,
                                                 bufferLines |-> last.lines]],
                       filter |-> C11_SubscriptionFilter(last.context, "buffer-update")] >>

\* the buffer of /b.ts, version 2, is current after events were processed
C14_Witness ==
    /\ last.op = "bufferUpdate"
    /\ lastEventContext # Undef
    /\ CurrentBuffer = [lines |-> <<"x", "y">>, fileName |-> "/b.ts", version |-> 2]

\* C15: every message sent on the channel is sent with a capability filter.
C15_EveryMessageFiltered ==
    \A i \in 1..Len(sent) : sent[i].filter # Undef

\* ---------------------------------------------------------------------------
\* C16: the error path of show-quick-info

C16_Hide == [kind |-> "ui", name |-> "hideQuickInfo", args |-> <<>>]

C16_PendingHide(id) ==
    \E i \in 1..Len(timers) : timers[i].id = id /\ timers[i].kind = "hideQuickInfo"

\* C16 as stated: a show-quick-info response with a truthy error whose origin
\* is the current position has hideQuickInfo invoked while the response is
\* handled.
C16_ErrorHidesWhileHandled ==
    (Handled({"show-quick-info"}) /\ Fresh(last.response) /\ last.response.error # Undef)
        => effects = << C16_Hide >>

\* C16 amended: handling such a response makes no UI call itself but registers
\* one zero-delay callback; that callback runs once, calls hideQuickInfo
\* whatever the context is by then, and showQuickInfo is never called for a
\* response that carries an error.
C16_ErrorHidesInZeroDelayCallback ==
    /\ [](  (Handled({"show-quick-info"}) /\ Fresh(last.response)
                /\ last.response.error # Undef)
            => /\ effects = <<>>
               /\ ~threw
               /\ last.timer # 0
               /\ C16_PendingHide(last.timer)
               /\ \A i \in 1..Len(timers) :
                    timers[i].id = last.timer => ZeroDelay(timers[i]) )
    /\ [](  Fired({"hideQuickInfo"}) => effects = << C16_Hide >> )
    /\ [](  (last.op = "timer" /\ last.timer.response.type = "show-quick-info"
                /\ last.timer.response.error # Undef)
            => "showQuickInfo" \notin EffectNames )
    /\ [](  \A id \in 1..MaxTimers : C16_PendingHide(id) => calls[id] = 0 )
    /\ \A id \in 1..MaxTimers : C16_PendingHide(id) ~> calls[id] = 1

\* the callback of an erroneous response has hidden the quick-info after the
\* cursor left the response's origin
C16_Witness ==
    /\ Fired({"hideQuickInfo"})
    /\ last.timer.response.error # Undef
    /\ Stale(last.timer.response)
    /\ effects = << C16_Hide >>

\* ---------------------------------------------------------------------------
\* C17: who writes the two stored fields

\* C17: handling a response, running a deferred callback, invoking a command
\* and issuing a language-service request leave lastEventContext and
\* lastBufferInfo as they were; a buffer update leaves lastEventContext and an
\* event leaves lastBufferInfo as it was.
C17_FrameConditions ==
    [][ /\ last'.op \in {"response", "timer", "command", "request"}
            => (lastEventContext' = lastEventContext /\ lastBufferInfo' = lastBufferInfo)
        /\ last'.op = "bufferUpdate" => lastEventContext' = lastEventContext
        /\ last'.op = "event" => lastBufferInfo' = lastBufferInfo
      ]_vars

\* a buffer update arrived while the stored context names another position
C17_Witness ==
    /\ last.op = "bufferUpdate"
    /\ lastEventContext # Undef
    /\ lastBufferInfo # Undef
    /\ Position(lastEventContext) # Position(last.context)

\* ---------------------------------------------------------------------------
\* C18: nothing waits for a response or for a pending callback

C19_Pending(id) ==
    \E i \in 1..Len(timers) :
        /\ timers[i].id = id
        /\ timers[i].kind = "setDetailedCompletionEntry"
        /\ timers[i].response.payload # Undef

\* C19: every completion-provider-item-selected response, whatever its meta,
\* registers one zero-delay callback and makes no call on arrival; the callback
\* of a response with a payload runs once and makes exactly the
\* setDetailedCompletionEntry call with the payload's details, whatever the
\* context is then.
C19_ItemSelectedAlwaysApplied ==
    /\ [](  Handled({"completion-provider-item-selected"})
            => /\ effects = <<>>
               /\ ~threw
               /\ last.timer # 0
               /\ \E i \in 1..Len(timers) :
                    /\ timers[i].id = last.timer
                    /\ timers[i].kind = "setDetailedCompletionEntry"
                    /\ ZeroDelay(timers[i]) )
    /\ [](  (Fired({"setDetailedCompletionEntry"}) /\ last.timer.response.payload # Undef)
            => effects = << [kind |-> "ui", name |-> "setDetailedCompletionEntry",
                             args |-> << last.timer.response.payload.details >>] >> )
    /\ [](  \A id \in 1..MaxTimers : C19_Pending(id) => calls[id] = 0 )
    /\ \A id \in 1..MaxTimers : C19_Pending(id) ~> calls[id] = 1

\* the detailed entry of a response whose origin is not the current position
\* has been set
C19_Witness ==
    /\ Fired({"setDetailedCompletionEntry"})
    /\ Stale(last.timer.response)
    /\ "setDetailedCompletionEntry" \in EffectNames

\* ---------------------------------------------------------------------------
\* C20: correlation by path, line and column

\* C20: a response of an origin-checked type whose origin equals the current
\* context in path, line and column is accepted whatever the other fields of
\* the context are and wherever the context has been in between: a
\* show-quick-info response registers its callback, a goto-definition response
\* with a payload issues its commands, a completion-provider response with a
\* payload registers its callback, and the quick-info callback of a response
\* with a payload shows it.
C20_CorrelationByPosition ==
    /\ (Handled({"show-quick-info"}) /\ Fresh(last.response))
            => (last.timer # 0 /\ ~threw)
    /\ (Handled({"goto-definition"}) /\ Fresh(last.response)
            /\ last.response.payload # Undef)
            => (Len(effects) = 3 /\ ~threw)
    /\ (Handled({"completion-provider"}) /\ Fresh(last.response)
            /\ last.response.payload # Undef)
            => (last.timer # 0 /\ ~threw)
    /\ (Fired({"showQuickInfo"}) /\ Fresh(last.timer.response)
            /\ last.timer.response.payload # Undef)
            => (EffectNames = {"showQuickInfo"} /\ ~threw)

\* the quick-info was shown although the context had been at another position
\* during the delay and came back with another byte offset and filetype
C20_Witness ==
    /\ Fired({"showQuickInfo"})
    /\ last.timer.away
    /\ lastEventContext.byte = 11
    /\ lastEventContext.filetype = "javascript"
    /\ EffectNames = {"showQuickInfo"}

====
